---- MODULE Spec2Model ----
(***************************************************************************)
(* Model of the cnn-annotator notebooks.                                   *)
(*                                                                         *)
(*   A_CNN_Annotation_with_Napari.ipynb : CellState, get_image_patch,      *)
(*       annotator (points layer, cnn_annotation_widget = Export,          *)
(*       _change_points_properties, next_label, previous_label)            *)
(*   training notebook (part_000)        : LABELS, create_tf_record        *)
(*                                                                         *)
(* Strings that the code builds or parses (label names, archive entry      *)
(* names, file names) are sequences of one-character strings, so that      *)
(* str.startswith / str.endswith / str.capitalize are computed as Python   *)
(* computes them.  Point coordinates are floats in napari; a coordinate    *)
(* is stored here as an integer number of half pixels (3 is 1.5), and      *)
(* int() truncates it toward zero as Python does.                          *)
(***************************************************************************)
EXTENDS Integers, Sequences, FiniteSets, TLC

(***************************************************************************)
(* Bounds of the exploration.                                              *)
(***************************************************************************)
MaxPoints == 2      \* points placed in one annotator session
MaxShape == 3       \* largest patch size typed into the widget (besides the default)
MaxOps == 5         \* GUI operations explored in one annotator session
MaxSessions == 2    \* annotator sessions (napari windows) opened

(***************************************************************************)
(* Program constants.                                                      *)
(***************************************************************************)
DefaultShape == 64  \* cnn_annotation_widget(shape=64)
RecordSize == 64    \* resize(img, (64, 64), ...)

(***************************************************************************)
(* Characters and Python string helpers.                                   *)
(***************************************************************************)
UpperChars == <<"A", "I", "M", "P">>
LowerChars == <<"a", "i", "m", "p">>

RECURSIVE IndexIn(_, _, _)
IndexIn(c, s, i) ==
    IF i > Len(s) THEN 0 ELSE IF s[i] = c THEN i ELSE IndexIn(c, s, i + 1)

\* str.upper / str.lower of one character (over the letters the labels use)
ToUpper(c) == IF IndexIn(c, LowerChars, 1) > 0 THEN UpperChars[IndexIn(c, LowerChars, 1)] ELSE c
ToLower(c) == IF IndexIn(c, UpperChars, 1) > 0 THEN LowerChars[IndexIn(c, UpperChars, 1)] ELSE c

\* str.capitalize(): first character upper-cased, the rest lower-cased
Capitalize(s) ==
    [i \in 1..Len(s) |-> IF i = 1 THEN ToUpper(s[i]) ELSE ToLower(s[i])]

\* s.startswith(p), s.endswith(p)
StartsWith(s, p) == Len(p) <= Len(s) /\ SubSeq(s, 1, Len(p)) = p
EndsWith(s, p) == Len(p) <= Len(s) /\ SubSeq(s, Len(s) - Len(p) + 1, Len(s)) = p

\* str(n) of a non-negative integer, as in an f-string
DigitChars == <<"0", "1", "2", "3", "4", "5", "6", "7", "8", "9">>
RECURSIVE Digits(_)
Digits(n) == IF n < 10 THEN <<DigitChars[n + 1]>> ELSE Digits(n \div 10) \o <<DigitChars[(n % 10) + 1]>>

(***************************************************************************)
(* class CellState(Enum)                                                   *)
(***************************************************************************)
LenCellState == 5
CellStateValues == 0..(LenCellState - 1)

\* CellState(v).name
CellStateName(v) ==
    CASE v = 0 -> <<"I", "n", "t", "e", "r", "p", "h", "a", "s", "e">>
      [] v = 1 -> <<"P", "r", "o", "m", "e", "t", "a", "p", "h", "a", "s", "e">>
      [] v = 2 -> <<"M", "e", "t", "a", "p", "h", "a", "s", "e">>
      [] v = 3 -> <<"A", "n", "a", "p", "h", "a", "s", "e">>
      [] v = 4 -> <<"A", "p", "o", "p", "t", "o", "s", "i", "s">>

\* the training notebook's LABELS list
LABELS == <<CellStateName(0), CellStateName(1), CellStateName(2), CellStateName(3), CellStateName(4)>>

(***************************************************************************)
(* The movies shown in the viewer: data[frame][row][column], (T, H, W).    *)
(* Movie 1 is 16-bit data with pixel values on both sides of 255.          *)
(***************************************************************************)
MovieT == 2
MovieH == 4
MovieW == 5

MoviePixel(m, f, y, x) == IF m = 1 THEN 200 + 40 * f + 10 * y + x ELSE 7 + 30 * f + 5 * y + x

\* layer.data of the image layer showing movie m (rows and columns 0-based in
\* the code, 1-based here)
MovieData(m) ==
    [f \in 1..MovieT |-> [y \in 1..MovieH |-> [x \in 1..MovieW |-> MoviePixel(m, f - 1, y - 1, x - 1)]]]

(***************************************************************************)
(* Python slicing and numpy shape.                                         *)
(***************************************************************************)
\* a slice bound i normalised against length n
SliceBound(i, n) ==
    IF i < 0 THEN (IF i + n < 0 THEN 0 ELSE i + n) ELSE (IF i > n THEN n ELSE i)

\* s[start:stop]
PySlice(s, start, stop) ==
    LET lo == SliceBound(start, Len(s))
        hi == SliceBound(stop, Len(s))
    IN IF lo >= hi THEN <<>> ELSE SubSeq(s, lo + 1, hi)

\* np.array(rows).shape for a list of equally long rows
NpShape(rows) == IF rows = <<>> THEN <<0>> ELSE <<Len(rows), Len(rows[1])>>

\* int(coo) of a coordinate given in half pixels: truncation toward zero
IntOf(c) == IF c >= 0 THEN c \div 2 ELSE -((-c) \div 2)

(***************************************************************************)
(* get_image_patch(layers, coords, shape)                                  *)
(***************************************************************************)
Raised(e) == [raised |-> e, patch |-> <<>>]
Returned(p) == [raised |-> "none", patch |-> p]

\* the crop expression of line 160:
\*   [row[x_coo - pad : x_coo + pad] for row in image[y_coo - pad : y_coo + pad]]
Crop(image, y_coo, x_coo, pad) ==
    LET rows == PySlice(image, y_coo - pad, y_coo + pad)
    IN [r \in 1..Len(rows) |-> PySlice(rows[r], x_coo - pad, x_coo + pad)]

\* (variant: the frame taken from the first layer that is shown)
IsShown(layer) == layer.visible
GetImagePatch_FirstShown(ils, coords, shape) ==
    LET shown == SelectSeq(ils, IsShown)
        frame == IntOf(coords[1])
        pad == shape \div 2
    IN IF shown = <<>> THEN Raised("IndexError")
       ELSE LET data == MovieData(shown[1].data)
                T == Len(data)
            IN IF frame >= T \/ frame < -T THEN Raised("IndexError")
               ELSE LET image == data[(IF frame < 0 THEN frame + T ELSE frame) + 1]
                        patch == Crop(image, IntOf(coords[2]), IntOf(coords[3]), pad)
                    IN IF NpShape(patch) # <<shape, shape>>
                          THEN Raised("ValueError")
                          ELSE Returned(patch)

GetImagePatch(ils, coords, shape) ==
    LET frame == IntOf(coords[1])
        y_coo == IntOf(coords[2])
        x_coo == IntOf(coords[3])
        pad == shape \div 2
    IN IF ils = <<>> THEN Raised("IndexError")
       ELSE LET data == MovieData(ils[1].data)
                T == Len(data)
            IN IF frame >= T \/ frame < -T THEN Raised("IndexError")
               ELSE LET image == data[(IF frame < 0 THEN frame + T ELSE frame) + 1]
                        patch == Crop(image, y_coo, x_coo, pad)
                    IN IF NpShape(patch) # <<shape, shape>>
                          THEN Raised("ValueError")
                          ELSE Returned(patch)

(***************************************************************************)
(* State.                                                                  *)
(***************************************************************************)
VARIABLES
    sessionTime,   \* the second in which annotator() was called (SESSION_TIME)
    layers,        \* viewer.layers
    points,        \* points_layer.data with points_layer.properties['State']
    currentState,  \* points_layer.current_properties['State'][0]
    wState,        \* cnn_annotation_widget.state.value.value
    wShape,        \* cnn_annotation_widget.shape.value
    wUseVisible,   \* cnn_annotation_widget.use_visible_layers.value
    wFilename,     \* cnn_annotation_widget.filename.value ("Export path:")
    disk,          \* the files of the working directory
    outcome,       \* how the last Export of this session ended
    tfrecord,      \* what create_tf_record last did
    nops,          \* GUI operations performed in this session
    call,          \* arguments of a direct get_image_patch call
    result         \* and what the call gave

vars == <<sessionTime, layers, points, currentState, wState, wShape, wUseVisible,
          wFilename, disk, outcome, tfrecord, nops, call, result>>

guiVars == <<sessionTime, layers, points, currentState, wState, wShape, wUseVisible,
             wFilename, disk, outcome, tfrecord, nops>>

(***************************************************************************)
(* The viewer's layers when annotator(viewer) is called: the image layers  *)
(* added with viewer.add_image, then the points layer annotator adds.      *)
(***************************************************************************)
NDim == 3          \* data.ndim of a (T, H, W) movie

ImageLayer(n, m) ==
    [kind |-> "Image", name |-> n, visible |-> TRUE, metadata |-> <<"metadata of", n>>, data |-> m]

PointsLayer ==
    [kind |-> "Points", name |-> "Annotation", visible |-> TRUE, metadata |-> <<>>, data |-> 0]

\* names a second image layer may carry
SecondNames == {"shape"}

LayerSetups ==
    {<<ImageLayer("GFP", 1), PointsLayer>>}
      \cup {<<ImageLayer("GFP", 1), ImageLayer(n, 2), PointsLayer>> : n \in SecondNames}

\* [layer for layer in viewer.layers if isinstance(layer, Image)]
IsImage(layer) == layer.kind = "Image"
ImageLayers(ls) == SelectSeq(ls, IsImage)

(***************************************************************************)
(* Files: the working directory is a list of [name, entries]; writing a    *)
(* name that exists replaces that file.                                    *)
(***************************************************************************)
RECURSIVE FileIndex(_, _, _)
FileIndex(d, name, i) ==
    IF i > Len(d) THEN 0 ELSE IF d[i].name = name THEN i ELSE FileIndex(d, name, i + 1)

HasFile(d, name) == FileIndex(d, name, 1) > 0
FileEntries(d, name) == d[FileIndex(d, name, 1)].entries

\* (variant: ZipFile(name, 'a'), which keeps what the file held)
WriteFile_Append(d, name, entries) ==
    IF HasFile(d, name)
       THEN [d EXCEPT ![FileIndex(d, name, 1)] =
                [name |-> name, entries |-> FileEntries(d, name) \o entries]]
       ELSE Append(d, [name |-> name, entries |-> entries])

\* ZipFile(name, 'w') ... close(): the file now holds exactly `entries`
WriteFile(d, name, entries) ==
    IF HasFile(d, name)
       THEN [d EXCEPT ![FileIndex(d, name, 1)] = [name |-> name, entries |-> entries]]
       ELSE Append(d, [name |-> name, entries |-> entries])

(***************************************************************************)
(* Names built by annotator.                                               *)
(***************************************************************************)
\* datetime.now().strftime(...) of the second t
StrfTime(t) == Digits(t)

Chars_annotation_ == <<"a", "n", "n", "o", "t", "a", "t", "i", "o", "n", "_">>
Chars_zip == <<".", "z", "i", "p">>
Chars_json == <<".", "j", "s", "o", "n">>
Chars_tif == <<".", "t", "i", "f">>

\* SESSION_NAME = f"annotation_{SESSION_TIME}"
SessionName(t) == Chars_annotation_ \o StrfTime(t)
ZipName(t) == SessionName(t) \o Chars_zip
JsonName(t) == SessionName(t) \o Chars_json

\* the default of the widget's filename parameter, Path.home()
HomePath == <<"~">>

\* (variant: the archive opened under the folder picked as "Export path:")
ZipPath_UnderFilename(filename, t) == filename \o <<"/">> \o ZipName(t)

\* the path handed to ZipFile in cnn_annotation_widget(filename, ...):
\* f"{SESSION_NAME}.zip", relative to the working directory
ZipPath(filename, t) == ZipName(t)

\* (variant: the index left out of the name)
PatchFileName_NoIndex(patch_label, t, idx) ==
    patch_label \o <<"/">> \o patch_label \o <<"_">> \o StrfTime(t) \o Chars_tif

\* f"{patch_label}/{patch_label}_{SESSION_TIME}_{idx}.tif"
PatchFileName(patch_label, t, idx) ==
    patch_label \o <<"/">> \o patch_label \o <<"_">> \o StrfTime(t) \o <<"_">> \o Digits(idx) \o Chars_tif

\* TiffWriter(stream).save(patch); stream.getvalue()   and   imread of it
TiffBytes(patch) == [tiff |-> patch, json |-> <<>>]
ImRead(bytes) == bytes.tiff

\* json.dumps(export_data, indent=2)
JsonDumps(d) == [tiff |-> <<>>, json |-> d]

(***************************************************************************)
(* export_data: a Python dict, as its list of (key, value) items in        *)
(* insertion order; d[k] = v replaces the value of a key already there.    *)
(* A value is an int, a layer's metadata, a list of numbers or a list of   *)
(* strings.                                                                *)
(***************************************************************************)
IntValue(n) == [kind |-> "int", int |-> n, meta |-> <<>>, nums |-> <<>>, strs |-> <<>>]
MetaValue(m) == [kind |-> "metadata", int |-> 0, meta |-> m, nums |-> <<>>, strs |-> <<>>]
NumList(l) == [kind |-> "numbers", int |-> 0, meta |-> <<>>, nums |-> l, strs |-> <<>>]
StrList(l) == [kind |-> "strings", int |-> 0, meta |-> <<>>, nums |-> <<>>, strs |-> l]

RECURSIVE KeyIndex(_, _, _)
KeyIndex(d, k, i) ==
    IF i > Len(d) THEN 0 ELSE IF d[i].key = k THEN i ELSE KeyIndex(d, k, i + 1)

HasKey(d, k) == KeyIndex(d, k, 1) > 0
DictGet(d, k) == d[KeyIndex(d, k, 1)].val

DictSet(d, k, v) ==
    IF HasKey(d, k)
       THEN [d EXCEPT ![KeyIndex(d, k, 1)] = [key |-> k, val |-> v]]
       ELSE Append(d, [key |-> k, val |-> v])

\* f'coords-{idx}'
CoordKey(idx) == "coords-" \o ToString(idx)

\* for layer in image_layers: if use_visible_layers and layer.visible: ...
RECURSIVE AddLayerMetadata(_, _, _, _)
AddLayerMetadata(d, ils, use_visible_layers, i) ==
    IF i > Len(ils) THEN d
    ELSE AddLayerMetadata(
            IF use_visible_layers /\ ils[i].visible
               THEN DictSet(d, ils[i].name, MetaValue(ils[i].metadata))
               ELSE d,
            ils, use_visible_layers, i + 1)

\* for idx in range(points_layer.data.shape[1]): export_data[f'coords-{idx}'] = ...
RECURSIVE AddCoords(_, _, _)
AddCoords(d, pts, idx) ==
    IF idx >= NDim THEN d
    ELSE AddCoords(
            DictSet(d, CoordKey(idx),
                    NumList([i \in 1..Len(pts) |-> pts[i].coords[idx + 1]])),
            pts, idx + 1)

\* lines 214-227
ExportData(ls, pts, shape, use_visible_layers) ==
    LET d0 == <<[key |-> "shape", val |-> IntValue(shape)]>>
        d1 == AddLayerMetadata(d0, ImageLayers(ls), use_visible_layers, 1)
        d2 == AddCoords(d1, pts, 0)
    IN DictSet(d2, "labels", StrList([i \in 1..Len(pts) |-> pts[i].State]))

\* the loop of lines 231-244 from index idx on, `acc` being the entries
\* written so far; it ends when a get_image_patch call raises
RECURSIVE PatchLoop(_, _, _, _, _, _)
PatchLoop(ils, pts, shape, t, idx, acc) ==
    IF idx >= Len(pts) THEN [entries |-> acc, raised |-> "none", at |-> idx]
    ELSE LET patch_label == pts[idx + 1].State
             got == GetImagePatch(ils, pts[idx + 1].coords, shape)
         IN IF got.raised # "none"
               THEN [entries |-> acc, raised |-> got.raised, at |-> idx]
               ELSE PatchLoop(ils, pts, shape, t, idx + 1,
                              Append(acc, [name |-> PatchFileName(patch_label, t, idx),
                                           data |-> TiffBytes(got.patch)]))

\* (variant: the json log written in a finally clause)
ExportedEntries_AlwaysJson(ls, pts, shape, use_visible_layers, t) ==
    Append(PatchLoop(ImageLayers(ls), pts, shape, t, 0, <<>>).entries,
           [name |-> JsonName(t),
            data |-> JsonDumps(ExportData(ls, pts, shape, use_visible_layers))])

\* the archive the with-block of lines 230-248 leaves behind
ExportedEntries(ls, pts, shape, use_visible_layers, t) ==
    LET loop == PatchLoop(ImageLayers(ls), pts, shape, t, 0, <<>>)
    IN IF loop.raised # "none"
          THEN loop.entries
          ELSE Append(loop.entries,
                      [name |-> JsonName(t),
                       data |-> JsonDumps(ExportData(ls, pts, shape, use_visible_layers))])

(***************************************************************************)
(* Inputs of the GUI: where the user clicks, and the patch sizes typed.    *)
(* A point is <<frame, y, x>> in half pixels.                              *)
(***************************************************************************)
ClickPoints ==
    { <<0, 4, 5>>,     \* (0, 2.0, 2.5): two rows and two columns from the top left
      <<2, 7, 9>>,     \* (1, 3.5, 4.5): one row and one column further in
      <<2, -4, 4>>,    \* (1, -2.0, 2.0): above the frame
      <<0, 1, 4>> }    \* (0, 0.5, 2.0): on the top border

Shapes == (2..MaxShape) \cup {DefaultShape}

NotExported == [exported |-> FALSE, raised |-> "none", at |-> 0, previous |-> "never",
                filenames |-> {}]
NoRecord == [written |-> FALSE, raised |-> "none", images |-> <<>>, labels |-> <<>>, root |-> <<>>]
NoCall == [coords |-> <<0, 0, 0>>, shape |-> 0]
Pending == [raised |-> "pending", patch |-> <<>>]

(***************************************************************************)
(* The state when the notebook's last cell has run: viewer, image layers,  *)
(* annotator(viewer).                                                      *)
(***************************************************************************)
InitSession ==
    /\ layers \in LayerSetups
    /\ points = <<>>
    /\ currentState = CellStateName(0)
    /\ wState = 0
    /\ wShape = DefaultShape
    /\ wUseVisible = TRUE
    /\ wFilename = HomePath
    /\ outcome = NotExported
    /\ nops = 0

Init ==
    /\ InitSession
    /\ sessionTime = 1
    /\ disk = <<>>
    /\ tfrecord = NoRecord
    /\ call = NoCall
    /\ result = Pending

(***************************************************************************)
(* GUI operations.                                                         *)
(***************************************************************************)
Op == nops < MaxOps /\ nops' = nops + 1

\* (variant: the handler reads the state selected before the change)
ChangePointsProperties_Stale(new_state) == currentState' = CellStateName(wState)

\* _change_points_properties, run by the widget's state.changed signal
ChangePointsProperties(new_state) == currentState' = CellStateName(new_state)

\* cnn_annotation_widget.state.value = CellState(new_state)
SetWidgetState(new_state) ==
    /\ wState' = new_state
    /\ IF new_state # wState
          THEN ChangePointsProperties(new_state)
          ELSE UNCHANGED currentState

\* (variant: the modulus one short of len(CellState))
NextLabelValue_ShortCycle(v) == (v + 1) % (LenCellState - 1)

\* @viewer.bind_key('.')
NextLabelValue(v) == (v + 1) % LenCellState
next_label ==
    /\ Op
    /\ SetWidgetState(NextLabelValue(wState))
    /\ UNCHANGED <<sessionTime, layers, points, wShape, wUseVisible, disk, outcome,
                   tfrecord, call, result, wFilename>>

\* @viewer.bind_key(',')
PreviousLabelValue(v) == (v - 1) % LenCellState
previous_label ==
    /\ Op
    /\ SetWidgetState(PreviousLabelValue(wState))
    /\ UNCHANGED <<sessionTime, layers, points, wShape, wUseVisible, disk, outcome,
                   tfrecord, call, result, wFilename>>

\* the user picks a state in the widget's selector
SelectState ==
    \E s \in CellStateValues :
        /\ s # wState
        /\ Op
        /\ SetWidgetState(s)
        /\ UNCHANGED <<sessionTime, layers, points, wShape, wUseVisible, disk, outcome,
                       tfrecord, call, result, wFilename>>

\* the user types a patch size into the widget
SetShape ==
    \E s \in Shapes :
        /\ s # wShape
        /\ Op
        /\ wShape' = s
        /\ UNCHANGED <<sessionTime, layers, points, currentState, wState, wUseVisible,
                       disk, outcome, tfrecord, call, result, wFilename>>

\* the user ticks or unticks use_visible_layers
SetUseVisible ==
    /\ Op
    /\ wUseVisible' = ~wUseVisible
    /\ UNCHANGED <<sessionTime, layers, points, currentState, wState, wShape,
                   disk, outcome, tfrecord, call, result, wFilename>>

\* the user shows or hides an image layer
ToggleVisible ==
    \E i \in 1..Len(layers) :
        /\ IsImage(layers[i])
        /\ Op
        /\ layers' = [layers EXCEPT ![i].visible = ~layers[i].visible]
        /\ UNCHANGED <<sessionTime, points, currentState, wState, wShape, wUseVisible,
                       disk, outcome, tfrecord, call, result, wFilename>>

\* points_layer.mode = 'add': a click adds a point carrying the layer's
\* current properties
NewPoint(c, state) == [coords |-> c, State |-> state]
AddPoint ==
    \E c \in ClickPoints :
        /\ Len(points) < MaxPoints
        /\ Op
        /\ points' = Append(points, NewPoint(c, currentState))
        /\ UNCHANGED <<sessionTime, layers, currentState, wState, wShape, wUseVisible,
                       disk, outcome, tfrecord, call, result, wFilename>>

\* the user drags a point
MovePoint ==
    \E i \in 1..Len(points), c \in ClickPoints :
        /\ c # points[i].coords
        /\ Op
        /\ points' = [points EXCEPT ![i].coords = c]
        /\ UNCHANGED <<sessionTime, layers, currentState, wState, wShape, wUseVisible,
                       disk, outcome, tfrecord, call, result, wFilename>>

\* the user deletes a point
DeletePoint ==
    \E i \in 1..Len(points) :
        /\ Op
        /\ points' = [j \in 1..(Len(points) - 1) |-> IF j < i THEN points[j] ELSE points[j + 1]]
        /\ UNCHANGED <<sessionTime, layers, currentState, wState, wShape, wUseVisible,
                       disk, outcome, tfrecord, call, result, wFilename>>

\* the Export button: cnn_annotation_widget(...)
\* how this Export ends (`previous`: how the Export before it had ended;
\* `filenames`: the filename arguments of the session's Exports so far)
ExportOutcome(ils, pts, shape, t, before) ==
    LET loop == PatchLoop(ils, pts, shape, t, 0, <<>>)
    IN [exported |-> TRUE, raised |-> loop.raised, at |-> loop.at,
        previous |-> IF before.exported THEN before.raised ELSE "never",
        filenames |-> before.filenames \cup {wFilename}]

Export ==
    /\ Op
    /\ disk' = WriteFile(disk, ZipPath(wFilename, sessionTime),
                         ExportedEntries(layers, points, wShape, wUseVisible, sessionTime))
    /\ outcome' = ExportOutcome(ImageLayers(layers), points, wShape, sessionTime, outcome)
    /\ UNCHANGED <<sessionTime, layers, points, currentState, wState, wShape, wUseVisible,
                   tfrecord, call, result, wFilename>>

Next ==
    \/ next_label
    \/ previous_label
    \/ SelectState
    \/ SetShape
    \/ SetUseVisible
    \/ ToggleVisible
    \/ AddPoint
    \/ MovePoint
    \/ DeletePoint
    \/ Export

Spec == Init /\ [][Next]_vars

(***************************************************************************)
(* get_image_patch called directly, on arguments drawn from every frame,   *)
(* every coordinate from beyond the top/left to beyond the bottom/right    *)
(* of the frame, and every patch size.                                     *)
(***************************************************************************)
PatchShapes == (1..(MaxShape + 1)) \cup {DefaultShape}

PatchCalls ==
    { [coords |-> <<f + f, y, x>>, shape |-> sh] :
        f \in 0..(MovieT - 1),
        y \in (-(MovieH + MovieH + 2))..(MovieH + MovieH + 2),
        x \in (-(MovieW + MovieW + 2))..(MovieW + MovieW + 2),
        sh \in PatchShapes }

InitPatch ==
    /\ InitSession
    /\ sessionTime = 1
    /\ disk = <<>>
    /\ tfrecord = NoRecord
    /\ call \in PatchCalls
    /\ result = Pending

CallGetImagePatch ==
    /\ result = Pending
    /\ result' = GetImagePatch(ImageLayers(layers), call.coords, call.shape)
    /\ UNCHANGED <<guiVars, call>>

NextPatch == CallGetImagePatch

SpecPatch == InitPatch /\ [][NextPatch]_vars

\* the arguments of the call as the claims name them
CallFrame == IntOf(call.coords[1])
CallY == IntOf(call.coords[2])
CallX == IntOf(call.coords[3])
CallPad == call.shape \div 2
CallDone == result.raised # "pending"

\* rows [y - pad, y + pad) and columns [x - pad, x + pad) lie in [0, H) x [0, W)
CropWindowInside ==
    /\ 0 <= CallY - CallPad /\ CallY + CallPad <= MovieH
    /\ 0 <= CallX - CallPad /\ CallX + CallPad <= MovieW

\* the shape x shape window whose pixel (i, j) is (y - shape//2 + i, x - shape//2 + j)
\* lies in [0, H) x [0, W)
CentredWindowInside ==
    /\ 0 <= CallY - CallPad /\ CallY - CallPad + call.shape <= MovieH
    /\ 0 <= CallX - CallPad /\ CallX - CallPad + call.shape <= MovieW

ExpectedPatch ==
    [i \in 1..call.shape |->
        [j \in 1..call.shape |->
            MovieData(1)[CallFrame + 1][CallY - CallPad + i][CallX - CallPad + j]]]

\* C1: a call whose crop window is not fully inside the frame raises ValueError
\* (it never returns a patch).
C1_OutOfFrameRaises ==
    (CallDone /\ ~CropWindowInside) => result.raised = "ValueError"

\* C2: a call with shape >= 1 whose shape x shape window centred on the point
\* is inside the frame returns the patch with pixel (i, j) =
\* movie[frame][y - shape//2 + i][x - shape//2 + j].
C2_InsideReturnsPatch ==
    (CallDone /\ call.shape >= 1 /\ CentredWindowInside)
        => (result.raised = "none" /\ result.patch = ExpectedPatch)

(***************************************************************************)
(* create_tf_record(root, filename, labels=LABELS), the annotator's        *)
(* working directory being root.                                           *)
(***************************************************************************)
\* f.endswith(".zip") and f.startswith("annotation_")
IsSessionArchive(name) == EndsWith(name, Chars_zip) /\ StartsWith(name, Chars_annotation_)

\* (variant: label.lower() in f.lower() instead of the prefix test)
RECURSIVE ContainsAt(_, _, _)
ContainsAt(s, p, i) ==
    IF i + Len(p) - 1 > Len(s) THEN FALSE
    ELSE IF SubSeq(s, i, i + Len(p) - 1) = p THEN TRUE ELSE ContainsAt(s, p, i + 1)
LowerCase(s) == [i \in 1..Len(s) |-> ToLower(s[i])]
IsPatchOf_AnyCase(name, label) ==
    EndsWith(name, Chars_tif) /\ ContainsAt(LowerCase(name), LowerCase(label), 1)

\* f.endswith(".tif") and f.startswith(label.capitalize())
IsPatchOf(name, label) == EndsWith(name, Chars_tif) /\ StartsWith(name, Capitalize(label))

\* resize(img, (64, 64), preserve_range=True): an array of RecordSize x RecordSize
\* pixels sampled over the whole of img (the value at a sample position is
\* taken from the pixel it falls in; an img of that size is returned as it is)
Resize(img) ==
    LET h == Len(img)
        w == Len(img[1])
    IN [i \in 1..RecordSize |->
           [j \in 1..RecordSize |-> img[((i - 1) * h) \div RecordSize + 1][((j - 1) * w) \div RecordSize + 1]]]

\* images_arr.astype(np.uint8)
AsUint8(img) == [i \in 1..Len(img) |-> [j \in 1..Len(img[i]) |-> img[i][j] % 256]]

\* the images of one label in one archive (lines 127-129), in namelist order
RECURSIVE PatchesOf(_, _, _)
PatchesOf(entries, label, i) ==
    IF i > Len(entries) THEN <<>>
    ELSE (IF IsPatchOf(entries[i].name, label)
             THEN <<Resize(ImRead(entries[i].data))>>
             ELSE <<>>) \o PatchesOf(entries, label, i + 1)

\* the loop over labels (lines 125-132) for one archive, from label number k on
RECURSIVE LoadArchive(_, _, _, _)
LoadArchive(entries, labels, k, acc) ==
    IF k > Len(labels) THEN acc
    ELSE LET images_resized == PatchesOf(entries, labels[k], 1)
         IN LoadArchive(entries, labels, k + 1,
                        [images |-> acc.images \o images_resized,
                         labels |-> acc.labels \o [n \in 1..Len(images_resized) |-> k - 1]])

\* the loop over zipfiles (lines 120-132), the files taken in the order `order`
RECURSIVE LoadAll(_, _, _, _, _)
LoadAll(d, order, labels, i, acc) ==
    IF i > Len(order) THEN acc
    ELSE LoadAll(d, order, labels, i + 1,
                 IF IsSessionArchive(d[order[i]].name)
                    THEN LoadArchive(d[order[i]].entries, labels, 1, acc)
                    ELSE acc)

\* os.listdir gives the files in an arbitrary order; two orders are explored,
\* the order in which the files were created and its reverse
ListDirOrders(d) ==
    {[i \in 1..Len(d) |-> i], [i \in 1..Len(d) |-> Len(d) + 1 - i]}

\* lines 135-139: np.stack of an empty list raises ValueError, otherwise the
\* record file is written (`root`: the directory as the run read it)
TfRecordOf(d, order, labels) ==
    LET loaded == LoadAll(d, order, labels, 1, [images |-> <<>>, labels |-> <<>>])
    IN IF loaded.images = <<>>
          THEN [written |-> FALSE, raised |-> "ValueError", images |-> <<>>, labels |-> <<>>,
                root |-> d]
          ELSE [written |-> TRUE, raised |-> "none",
                images |-> [n \in 1..Len(loaded.images) |-> AsUint8(loaded.images[n])],
                labels |-> loaded.labels,
                root |-> d]

\* a run that raises leaves the record file of an earlier run as it is
CreateTfRecord ==
    /\ disk # <<>>
    /\ \E order \in ListDirOrders(disk) :
          LET new == TfRecordOf(disk, order, LABELS)
          IN tfrecord' = IF new.written \/ ~tfrecord.written
                            THEN new
                            ELSE [tfrecord EXCEPT !.raised = new.raised]
    /\ UNCHANGED <<sessionTime, layers, points, currentState, wState, wShape, wUseVisible,
                   disk, outcome, nops, call, result, wFilename>>

(***************************************************************************)
(* The record builder on what annotator sessions export.  The session at   *)
(* hand has its points placed and its patch size typed; the directory      *)
(* already holds the archives that the sessions of earlier seconds         *)
(* exported.                                                               *)
(***************************************************************************)
RecordShapes == {2, DefaultShape}

\* n points placed with the '.' key pressed between clicks, the first one with
\* state v: all inside the frame, or the last one on the top border
RecordPointList(n, v, lastOutside) ==
    [i \in 1..n |->
        NewPoint(IF lastOutside /\ i = n THEN <<0, 1, 4>> ELSE <<0, 4, 5>>,
                 CellStateName((v + i - 1) % LenCellState))]

RecordPointLists ==
    {RecordPointList(n, v, o) : n \in 0..MaxPoints, v \in CellStateValues, o \in BOOLEAN}

\* the archive an earlier session opened in second t exported: one point
\* with patch size 2
EarlierPoints(t) == <<NewPoint(<<2, 7, 9>>, CellStateName(t % LenCellState))>>

EarlierDisk(n) ==
    [t \in 1..n |->
        [name |-> ZipName(t),
         entries |-> ExportedEntries(<<ImageLayer("GFP", 1), PointsLayer>>, EarlierPoints(t), 2, TRUE, t)]]

InitRecord ==
    /\ layers = <<ImageLayer("GFP", 1), PointsLayer>>
    /\ points \in RecordPointLists
    /\ currentState = CellStateName(0)
    /\ wState = 0
    /\ wShape \in RecordShapes
    /\ wUseVisible = TRUE
    /\ wFilename = HomePath
    /\ outcome = NotExported
    /\ nops = MaxOps - 1
    /\ \E n \in 0..(MaxSessions - 1) : sessionTime = n + 1 /\ disk = EarlierDisk(n)
    /\ tfrecord = NoRecord
    /\ call = NoCall
    /\ result = Pending

NextRecord ==
    \/ Export
    \/ CreateTfRecord

SpecRecord == InitRecord /\ [][NextRecord]_vars

(***************************************************************************)
(* Export under every setting of the widget's file picker and of the       *)
(* layer list.  The session at hand has its points placed, its patch size  *)
(* typed and use_visible_layers ticked or not; the viewer shows no, one or *)
(* two image layers, shown or hidden, in either order.  The user picks     *)
(* folders in "Export path:" and presses Export.                           *)
(***************************************************************************)
\* folders the file picker may hold
Filenames == {HomePath, <<"/", "t", "m", "p">>, <<"o", "u", "t">>}

\* the user picks a folder in the widget's "Export path:" field
SetFilename ==
    \E f \in Filenames :
        /\ f # wFilename
        /\ Op
        /\ wFilename' = f
        /\ UNCHANGED <<sessionTime, layers, points, currentState, wState, wShape, wUseVisible,
                       disk, outcome, tfrecord, call, result>>

\* viewer.add_image(..., visible=v) of movie m
ShownOrHidden(m, v) ==
    [ImageLayer(IF m = 1 THEN "GFP" ELSE "RFP", m) EXCEPT !.visible = v]

ExportLayerSetups ==
    {<<PointsLayer>>}
      \cup {<<ShownOrHidden(m, v), PointsLayer>> : m \in {1, 2}, v \in BOOLEAN}
      \cup {<<ShownOrHidden(m, v), ShownOrHidden(3 - m, w), PointsLayer>> :
                m \in {1, 2}, v \in BOOLEAN, w \in BOOLEAN}

\* up to MaxPoints clicks with the '.' key pressed between them: the last
\* click anywhere, the ones before it two rows and columns from the top left
ExportPointLists ==
    {<<>>} \cup
    {[i \in 1..n |-> NewPoint(IF i = n THEN c ELSE <<0, 4, 5>>,
                              CellStateName((i - 1) % LenCellState))] :
        n \in 1..MaxPoints, c \in ClickPoints}

InitExport ==
    /\ layers \in ExportLayerSetups
    /\ points \in ExportPointLists
    /\ currentState = CellStateName(0)
    /\ wState = 0
    /\ wShape \in Shapes
    /\ wUseVisible \in BOOLEAN
    /\ wFilename = HomePath
    /\ outcome = NotExported
    /\ nops = MaxOps - 3
    /\ sessionTime = 1
    /\ disk = <<>>
    /\ tfrecord = NoRecord
    /\ call = NoCall
    /\ result = Pending

NextExport ==
    \/ SetFilename
    \/ Export

SpecExport == InitExport /\ [][NextExport]_vars

(***************************************************************************)
(* Properties of a GUI session (Spec).                                     *)
(***************************************************************************)
ThisZip == ZipName(sessionTime)

\* the archive of this session after the step, and the text "annotation_<t>"
ArchiveAfter == FileEntries(disk', ThisZip)
AnnotationT == <<"a", "n", "n", "o", "t", "a", "t", "i", "o", "n", "_">> \o Digits(sessionTime)

\* the step is a press of the Export button
ExportStep ==
    /\ outcome'.exported
    /\ UNCHANGED <<points, wState, wShape, wUseVisible, layers>>
    /\ Export

\* "<L>/<L>_<t>_<i>.tif"
TifNameOf(L, i) ==
    L \o <<"/">> \o L \o <<"_">> \o Digits(sessionTime) \o <<"_">> \o Digits(i) \o <<".", "t", "i", "f">>

\* the part of an entry name before the first "/"
DirOf(name) == SubSeq(name, 1, IndexIn("/", name, 1) - 1)

TifEntries(a) == {i \in 1..Len(a) : EndsWith(a[i].name, <<".", "t", "i", "f">>)}
JsonEntries(a) == {i \in 1..Len(a) : EndsWith(a[i].name, <<".", "j", "s", "o", "n">>)}

\* the patch Export crops at point number i (0-based) of the points layer
PatchAt(i) == GetImagePatch(ImageLayers(layers), points[i + 1].coords, wShape)

\* C3: '.' takes the label with value v to (v + 1) mod 5, ',' takes it to
\* (v - 1) mod 5; the label is always one of the five members, '.' from
\* Apoptosis (4) gives Interphase (0) and ',' from Interphase gives Apoptosis.
C3_LabelCycling ==
    [][ /\ wState' \in 0..4
        /\ next_label => wState' = (IF wState = 4 THEN 0 ELSE wState + 1)
        /\ previous_label => wState' = (IF wState = 0 THEN 4 ELSE wState - 1) ]_vars

\* ',' (or the selector) has taken the label from Interphase to Apoptosis
C3_Witness == nops = 1 /\ wState = 4 /\ currentState = CellStateName(4)

\* C4: a successful Export with n points leaves annotation_<t>.zip holding
\* exactly n TIFF entries and one JSON entry annotation_<t>.json; the TIFF of
\* point i is <L>/<L>_<t>_<i>.tif, L the label of point i, and holds the patch
\* cropped at point i; names are pairwise distinct and the i-th label
\* directory is the i-th element of the JSON labels list.
C4_Archive ==
    [][ (ExportStep /\ outcome'.raised = "none") =>
          LET n == Len(points)
              a == ArchiveAfter
          IN /\ ThisZip = AnnotationT \o <<".", "z", "i", "p">>
             /\ HasFile(disk', ThisZip)
             /\ Len(a) = n + 1
             /\ Cardinality(TifEntries(a)) = n
             /\ JsonEntries(a) = {n + 1}
             /\ a[n + 1].name = AnnotationT \o <<".", "j", "s", "o", "n">>
             /\ \A i \in 0..(n - 1) :
                   /\ a[i + 1].name = TifNameOf(points[i + 1].State, i)
                   /\ ImRead(a[i + 1].data) = PatchAt(i).patch
                   /\ DirOf(a[i + 1].name) = DictGet(a[n + 1].data.json, "labels").strs[i + 1]
             /\ \A i, j \in 1..Len(a) : i # j => a[i].name # a[j].name ]_vars

\* an Export of two points with the same label has succeeded
C4_Witness ==
    /\ outcome.exported /\ outcome.raised = "none"
    /\ Len(points) = 2 /\ points[1].State = points[2].State
    /\ HasFile(disk, ThisZip)
    /\ Len(FileEntries(disk, ThisZip)) = 3

\* C5: on a successful Export, whatever use_visible_layers and the layer
\* names, the JSON object has `shape` = the patch size, for each visible Image
\* layer a key with its name holding its metadata, `coords-<d>` for each axis
\* d and `labels`, both in point order.
C5_JsonKeys ==
    [][ (ExportStep /\ outcome'.raised = "none") =>
          LET d == ArchiveAfter[Len(points) + 1].data.json
          IN /\ HasKey(d, "shape")
             /\ DictGet(d, "shape").kind = "int"
             /\ DictGet(d, "shape").int = wShape
             /\ \A l \in 1..Len(layers) :
                   (IsImage(layers[l]) /\ layers[l].visible) =>
                      /\ HasKey(d, layers[l].name)
                      /\ DictGet(d, layers[l].name).kind = "metadata"
                      /\ DictGet(d, layers[l].name).meta = layers[l].metadata
             /\ \A ax \in 0..(NDim - 1) :
                   /\ HasKey(d, CoordKey(ax))
                   /\ DictGet(d, CoordKey(ax)).kind = "numbers"
                   /\ DictGet(d, CoordKey(ax)).nums = [i \in 1..Len(points) |-> points[i].coords[ax + 1]]
             /\ HasKey(d, "labels")
             /\ DictGet(d, "labels").kind = "strings"
             /\ DictGet(d, "labels").strs = [i \in 1..Len(points) |-> points[i].State] ]_vars

\* C6: once an Export has produced annotation_<t>.zip, no later operation
\* (points added, moved, deleted, label changed, Export pressed again)
\* changes the contents of that archive.
C6_WriteOnce ==
    [][ (outcome.exported /\ outcome.raised = "none") => ArchiveAfter = FileEntries(disk, ThisZip) ]_vars

\* C6 as amended: once annotation_<t>.zip exists, an operation other than
\* Export leaves the directory as it is, and an Export leaves the archive
\* holding what it writes from the points then present, nothing else.
C6_OnlyExportRewrites ==
    [][ HasFile(disk, ThisZip) =>
          \/ disk' = disk
          \/ /\ ExportStep
             /\ HasFile(disk', ThisZip)
             /\ ArchiveAfter = ExportedEntries(layers, points, wShape, wUseVisible, sessionTime)
             /\ \A f \in 1..Len(disk) : disk[f].name # ThisZip => disk'[f] = disk[f] ]_vars

\* a second Export has rewritten an archive: it holds two patches now, and
\* four operations (among them the two clicks) came before
C6_Witness ==
    /\ nops = MaxOps
    /\ outcome.exported /\ outcome.previous = "none" /\ outcome.raised = "none"
    /\ Len(points) = 2
    /\ Len(FileEntries(disk, ThisZip)) = 3

C10_PartialArchive ==
    [][ (ExportStep /\ outcome'.raised # "none") =>
          LET k == outcome'.at
              a == ArchiveAfter
          IN /\ k \in 0..(Len(points) - 1)
             /\ PatchAt(k).raised = outcome'.raised
             /\ \A i \in 0..(k - 1) : PatchAt(i).raised = "none"
             /\ HasFile(disk', ThisZip)
             /\ Len(a) = k
             /\ JsonEntries(a) = {}
             /\ \A i \in 0..(k - 1) :
                   /\ a[i + 1].name = TifNameOf(points[i + 1].State, i)
                   /\ ImRead(a[i + 1].data) = PatchAt(i).patch ]_vars

\* an Export that had succeeded before fails at the second point: the archive
\* holds the first point's patch alone
C10_Witness ==
    /\ outcome.exported /\ outcome.previous = "none"
    /\ outcome.raised = "ValueError" /\ outcome.at = 1
    /\ Len(FileEntries(disk, ThisZip)) = 1

(***************************************************************************)
(* Properties of the record builder (SpecRecord).                          *)
(***************************************************************************)
\* the TIFF entries of the archives annotation_*.zip of directory d, as
\* <<file, entry>> pairs
RECURSIVE SourceTifs(_, _)
SourceTifs(d, f) ==
    IF f > Len(d) THEN <<>>
    ELSE (IF StartsWith(d[f].name, <<"a", "n", "n", "o", "t", "a", "t", "i", "o", "n", "_">>)
             /\ EndsWith(d[f].name, <<".", "z", "i", "p">>)
             THEN [e \in 1..Len(d[f].entries) |-> <<f, e>>]
             ELSE <<>>) \o SourceTifs(d, f + 1)

IsTifSource(d, s) == EndsWith(d[s[1]].entries[s[2]].name, <<".", "t", "i", "f">>)

\* the (image, label) pair a TIFF entry is to give: its patch resized, and
\* the place in LABELS of the directory it was exported under
ExpectedPair(d, s) ==
    [image |-> AsUint8(Resize(ImRead(d[s[1]].entries[s[2]].data))),
     label |-> IndexIn(DirOf(d[s[1]].entries[s[2]].name), LABELS, 1) - 1]

ExpectedPairs(d) ==
    LET src == SelectSeq(SourceTifs(d, 1), LAMBDA s : IsTifSource(d, s))
    IN [k \in 1..Len(src) |-> ExpectedPair(d, src[k])] \o <<>>

\* C7: the record collection holds every TIFF patch of every archive
\* annotation_*.zip exactly once, as many images as labels, and every label
\* is the place in LABELS, in [0, len(LABELS)), of the label directory the
\* patch was exported under.
C7_RecordsMatchArchives ==
    tfrecord.written =>
        LET want == ExpectedPairs(tfrecord.root)
            R == 1..Len(tfrecord.images)
        IN /\ Len(tfrecord.images) = Len(tfrecord.labels)
           /\ \A n \in R : tfrecord.labels[n] \in 0..(Len(LABELS) - 1)
           /\ Len(want) = Len(tfrecord.images)
           /\ \A k \in 1..Len(want) :
                 Cardinality({n \in R : tfrecord.images[n] = want[k].image
                                          /\ tfrecord.labels[n] = want[k].label})
                    = Cardinality({j \in 1..Len(want) : want[j] = want[k]})

\* a record collection built from two archives that hold Prometaphase and
\* Metaphase patches
C7_Witness ==
    /\ tfrecord.written
    /\ Len(tfrecord.root) = 2
    /\ Len(tfrecord.images) >= 3
    /\ \E i, j \in 1..Len(tfrecord.labels) : tfrecord.labels[i] = 1 /\ tfrecord.labels[j] = 2

\* C8: every patch of a successfully exported session comes back from
\* create_tf_record as a pair with the same pixel values as the patch the
\* annotator cropped and with the CellState value of the point's label.
C8_RoundTrip ==
    tfrecord.written =>
        \A f \in 1..Len(tfrecord.root) :
            LET a == tfrecord.root[f].entries
            IN JsonEntries(a) # {} =>
                  \A e \in TifEntries(a) :
                      \E n \in 1..Len(tfrecord.images) :
                          /\ tfrecord.images[n] = ImRead(a[e].data)
                          /\ CellStateName(tfrecord.labels[n])
                                = DictGet(a[Len(a)].data.json, "labels").strs[e]

FirstImage == ImageLayers(layers)[1]

\* the crop window of point number i (0-based) on the frame of movie m that
\* the point lies in
WindowOn(m, i) ==
    LET c == points[i + 1].coords
    IN Crop(MovieData(m)[IntOf(c[1]) + 1], IntOf(c[2]), IntOf(c[3]), wShape \div 2)

\* the layer list with the image layers shown or hidden as vs says
WithVisibility(ls, vs) ==
    [l \in 1..Len(ls) |-> IF IsImage(ls[l]) THEN [ls[l] EXCEPT !.visible = vs[l]] ELSE ls[l]]

\* the TIFF entries of an archive, in order
IsTifEntry(e) == EndsWith(e.name, <<".", "t", "i", "f">>)
TifPart(a) == SelectSeq(a, IsTifEntry)

\* C12: every patch an Export writes is cropped from the first Image layer
\* of the viewer's layer list, whether that layer is shown or hidden,
\* whatever use_visible_layers is and however many image layers there are;
\* with the layers shown or hidden in any other way and use_visible_layers
\* set the other way, the same TIFF entries are written.
C12_PatchFromFirstImage ==
    [][ ExportStep =>
          LET a == ArchiveAfter
          IN /\ \A e \in TifEntries(a) : ImRead(a[e].data) = WindowOn(FirstImage.data, e - 1)
             /\ \A vs \in [{l \in 1..Len(layers) : IsImage(layers[l])} -> BOOLEAN], u \in BOOLEAN :
                   TifPart(ExportedEntries(WithVisibility(layers, vs), points, wShape, u, sessionTime))
                      = TifPart(a) ]_vars

\* a patch has been exported with two image layers in the viewer, the first
\* of them hidden and the second shown, use_visible_layers ticked
C12_Witness ==
    /\ outcome.exported /\ outcome.raised = "none"
    /\ Len(ImageLayers(layers)) = 2
    /\ ~ImageLayers(layers)[1].visible /\ ImageLayers(layers)[2].visible
    /\ wUseVisible
    /\ TifEntries(FileEntries(disk, ThisZip)) # {}

====
